---- MODULE Spec2Model ----
(***************************************************************************)
(* Model of the job-posting extraction pipeline of extractor.py:           *)
(* extract_deadline_regex, the per-field pattern extractors, the per-field *)
(* Ollama calls, extract_job_details_ollama and extract_job_details.       *)
(*                                                                         *)
(* Strings are modelled by a content name and a length in characters       *)
(* ([id, len]); the predicates the code applies to a string (lower(), a    *)
(* digit search) are tables over the content names.  Instants are          *)
(* integers; the clock does not advance during one extraction and reads    *)
(* Now during the first.  An optional                                      *)
(* value is a sequence of length at most one (None, Some(v)).              *)
(* The modelled texts are at most 5000 characters long, so text_sample     *)
(* (extractor.py:693, 737) is the text itself.                             *)
(*                                                                         *)
(* Specifications: Spec (one extraction, with or without a backend),       *)
(* SpecDeadline (extract_deadline_regex), SpecSalary (extract_salary_regex *)
(* on texts given line by line), SpecAgent (one Ollama call),              *)
(* SpecPatternOnly (two extractions with no backend) and SpecSave (an      *)
(* extraction followed by save_job_to_sheet of bot.py).                    *)
(*                                                                         *)
(* The adapters around the extractor have their own specifications:        *)
(* SpecReminder (the daily check of reminder.py over the days),            *)
(* SpecSheet (/list and /applied on any sheet), SpecFetch                  *)
(* (scraper.fetch_job_text), SpecDialogue (handle_message and the          *)
(* missing-field collection), SpecHandlers (every registered handler, for  *)
(* the configured user and another one), SpecMain (main() of bot.py) and   *)
(* SpecScheduler (schedule_reminders and stop_scheduler).  There the sheet *)
(* is the sequence of its data rows, a calendar date is a day number and   *)
(* an instant of a day is counted in hours.                                *)
(***************************************************************************)
EXTENDS Integers, Sequences, FiniteSets, TLC

VARIABLES
    text,             \* the posting text: its date phrases and rule captures
    url,              \* the url argument (None or Some)
    OLLAMA_AVAILABLE, \* extractor.py:24-29, set once at import
    pc,               \* position inside extract_job_details
    deadline,         \* local `deadline` of extract_job_details (step 1)
    job_data,         \* the dictionary being assembled (None before creation)
    called,           \* history: the fields whose Ollama call has been made
    agent,            \* history: validated result of each Ollama call
    resolved,         \* history: deadline parsed from the Ollama answer
    handled,          \* history: the handler of extractor.py:796 has run
    backend,          \* history: what the checks of extractor.py:722-733 found
    clock,            \* the reading of datetime.now(config.TIMEZONE)
    previous,         \* history: the record the previous call returned
    stamps,           \* history: the number of assignments to added_on
    response,         \* what ollama.generate does for the call under study
    sheet,            \* the data rows of the Google Sheet (columns C and F)
    today,            \* the calendar date in config.TIMEZONE, a day number
    fired,            \* the 08:00 trigger of `today` has run
    sent,             \* history: the calls of _send_reminder
    listed,           \* history: the rows the last /list numbered 1, 2, ..
    marked,           \* history: the last /applied (number, row, job shown)
    TELEGRAM_USER_ID, \* config.py:14 (None when the variable is not set)
    pending_job,      \* context.user_data['pending_job'] of each user
    added,            \* history: the dictionary of the last sheets.add_job
    last,             \* history: the last update and what handling it did
    dialogue,         \* history: each user's last collection and its course
    web,              \* what the two HTTP requests of the scraper meet
    scrape,           \* the dictionary fetch_job_text returned (None before)
    tried,            \* history: the fetch methods called, in order
    environ,          \* the process environment and the services at startup
    startup,          \* position inside main()
    _scheduler,       \* reminder.py:21, the module-level scheduler
    schedulers        \* history: every BackgroundScheduler constructed

vars == <<text, url, OLLAMA_AVAILABLE, pc, deadline, job_data,
          called, agent, resolved, handled, backend, clock, previous, stamps,
          response, sheet, today, fired, sent, listed, marked,
          TELEGRAM_USER_ID, pending_job, added, last, dialogue, web, scrape,
          tried, environ, startup, _scheduler, schedulers>>

\* the state of the adapters around the extractor: sheet, reminders, chat
sheetVars == <<sheet, today, fired, sent, listed, marked>>
chatVars == <<TELEGRAM_USER_ID, pending_job, added, last, dialogue>>
fetchVars == <<web, scrape, tried>>
mainVars == <<environ, startup>>
schedulerVars == <<_scheduler, schedulers>>
transport == <<sheetVars, chatVars, fetchVars, mainVars, schedulerVars>>

-----------------------------------------------------------------------------
(* Bounds of the model *)

MaxDay == 2        \* instants are 0..MaxDay
Now == 1           \* the clock reading during the first extraction
MaxPhrases == 2    \* date phrases in a text of the deadline specification
MaxLines == 3      \* lines in a text of the salary specification

Instants == 0..MaxDay

None == <<>>
Some(v) == <<v>>

-----------------------------------------------------------------------------
(* Strings *)

\* ell: the string ends in the "..." appended by a truncation
Str(id, len) == [id |-> id, len |-> len, ell |-> FALSE]

\* str.lower() on the content names used in the model
Lower(id) ==
    CASE id = "NULL" -> "null"
      [] id = "Null" -> "null"
      [] id = "Job" -> "job"
      [] id = "Role" -> "role"
      [] id = "Position" -> "position"
      [] OTHER -> id

\* the content names that contain a digit, two digits in a row, or the
\* word "negotiable" (re.search(r'\d'), r'\d{2,}', r'negotiable')
DigitIds ==
    {"BDT 40,000 - 55,000", "Tk 5", "40,000 - 55,000",
     "25-30", "2-3", "10-15", "9-5", "2-3 years", "10-15 people",
     "Tk. 50,000 - 70,000", "Tk. 50,000", "50,000 - 70,000",
     "Tk. 22,000 - 30,000 per month", "Tk. 22,000", "22,000 - 30,000",
     "22,000 - 30,000 BDT", "30,000 BDT", "BDT 40,000",
     "BDT 40,000 - 55,000.", "BDT 40,000 - 55,000. Deadline: 15/02/2026",
     "BDT 40,000 - 55,000. Deadline: 15/02/2026."}
TwoDigitIds ==
    {"BDT 40,000 - 55,000", "40,000 - 55,000",
     "25-30", "10-15", "10-15 people",
     "Tk. 50,000 - 70,000", "Tk. 50,000", "50,000 - 70,000",
     "Tk. 22,000 - 30,000 per month", "Tk. 22,000", "22,000 - 30,000",
     "22,000 - 30,000 BDT", "30,000 BDT"}
NegotiableIds == {"Negotiable"}

\* a capture of a regex group: content, raw length, the number of
\* characters strip() removes (pad) and the number the substitutions
\* applied afterwards remove (ws)
Cap(id, len, pad, ws) == <<[id |-> id, len |-> len, pad |-> pad, ws |-> ws]>>
NoMatch == <<>>

\* match.group(1).strip()
Stripped(c) == Str(c.id, c.len - c.pad)
\* match.group(1).strip() followed by the re.sub clean-ups
Clean(c) == Str(c.id, c.len - c.pad - c.ws)

-----------------------------------------------------------------------------
(* extract_deadline_regex *)

\* config.DATE_PATTERNS: the keyword each pattern is anchored on and the
\* date formats its group accepts.  NUM is DD/MM/YYYY, DD-MM-YYYY or
\* DD.MM.YYYY; DMY is "DD Month YYYY"; MDY is "Month DD, YYYY".
DATE_PATTERNS ==
    << [kw |-> "deadline",              fmts |-> {"NUM"}],
       [kw |-> "apply by",              fmts |-> {"DMY"}],
       [kw |-> "apply by",              fmts |-> {"MDY"}],
       [kw |-> "last date",             fmts |-> {"NUM"}],
       [kw |-> "application deadline",  fmts |-> {"NUM"}],
       [kw |-> "applications close on", fmts |-> {"DMY"}],
       [kw |-> "close date",            fmts |-> {"NUM"}],
       [kw |-> "shesh tarikh",          fmts |-> {"NUM"}],
       [kw |-> "due date",              fmts |-> {"NUM"}],
       [kw |-> "expires",               fmts |-> {"NUM"}],
       [kw |-> "valid till",            fmts |-> {"NUM"}] >>

\* date_only_patterns, in the order they are tried
date_only_patterns == << "NUM", "DMY", "MDY" >>

\* the text a pattern's keyword part matches: the keyword itself, and for
\* "deadline" also the tail of "application deadline"
KeywordMatches(patkw, phkw) ==
    \/ patkw = phkw
    \/ patkw = "deadline" /\ phkw = "application deadline"

\* re.findall(pattern, text_lower): the phrases matched, in text order
FindAll(pattern, phrases) ==
    SelectSeq(phrases, LAMBDA ph :
        KeywordMatches(pattern.kw, ph.kw) /\ ph.fmt \in pattern.fmts)

\* re.findall of a standalone pattern: every date token of that format,
\* whether or not a keyword precedes it
FindAllDates(fmt, phrases) ==
    SelectSeq(phrases, LAMBDA ph : ph.fmt = fmt)

\* dateparser.parse(token, settings): the written date when the token is
\* resolvable, None when it is not; a raise is caught by the caller and
\* has the effect of no date
\* ParseDate resolving the token relative to the clock reading
ParseDateRelative(ph) ==
    IF ph.parse = "ok" THEN Some(ph.date + clock - Now) ELSE None

ParseDate(ph) == IF ph.parse = "ok" THEN Some(ph.date) ELSE None

\* acceptance test of a standalone date (extractor.py:98-99)
NotPast(d) == d >= clock
FutureOnly(d) == d > clock

\* the loop over config.DATE_PATTERNS (extractor.py:49-71), from pattern i
RECURSIVE KeywordScan(_, _)
KeywordScan(phrases, i) ==
    IF i > Len(DATE_PATTERNS) THEN None
    ELSE LET matches == FindAll(DATE_PATTERNS[i], phrases)
         IN  IF matches # <<>> /\ ParseDate(matches[1]) # None
             THEN ParseDate(matches[1])
             ELSE KeywordScan(phrases, i + 1)

\* the inner loop over the matches of one standalone pattern
\* (extractor.py:85-104), from match j
RECURSIVE MatchScan(_, _)
MatchScan(matches, j) ==
    IF j > Len(matches) THEN None
    ELSE LET d == ParseDate(matches[j])
         IN  IF d # None /\ FutureOnly(d[1])
             THEN d
             ELSE MatchScan(matches, j + 1)

\* the loop over date_only_patterns (extractor.py:81-104), from pattern i
RECURSIVE StandaloneScan(_, _)
StandaloneScan(phrases, i) ==
    IF i > Len(date_only_patterns) THEN None
    ELSE LET r == MatchScan(FindAllDates(date_only_patterns[i], phrases), 1)
         IN  IF r # None THEN r ELSE StandaloneScan(phrases, i + 1)

extract_deadline_regex(t) ==
    LET anchored == KeywordScan(t.phrases, 1)
    IN  IF anchored # None THEN anchored ELSE StandaloneScan(t.phrases, 1)

-----------------------------------------------------------------------------
(* The pattern extractors of company, position, location and salary.       *)
(* A text carries, for every rule of an extractor, the group the rule      *)
(* captures in it (NoMatch when the rule does not match).                  *)

MAX_SALARY_TEXT_LENGTH == 150

\* sanity check of extractor.py:150
CompanyOk(s) ==
    /\ 3 < s.len /\ s.len < 100
    /\ Lower(s.id) \notin {"job", "position", "role"}

\* the loop over the rules of extract_company_regex, from rule i
RECURSIVE CompanyScan(_, _)
CompanyScan(caps, i) ==
    IF i > Len(caps) THEN None
    ELSE IF caps[i] # NoMatch /\ CompanyOk(Clean(caps[i][1]))
         THEN Some(Clean(caps[i][1]))
         ELSE CompanyScan(caps, i + 1)

extract_company_regex(t) == CompanyScan(t.company, 1)

\* sanity check of extractor.py:201
PositionOk(s) == 3 < s.len /\ s.len < 150

RECURSIVE PositionScan(_, _)
PositionScan(caps, i) ==
    IF i > Len(caps) THEN None
    ELSE IF caps[i] # NoMatch /\ PositionOk(Clean(caps[i][1]))
         THEN Some(Clean(caps[i][1]))
         ELSE PositionScan(caps, i + 1)

\* extract_position_regex giving the placeholder of extractor.py:16 when
\* no rule matches
PositionOrDefault(t) ==
    IF PositionScan(t.position, 1) = None
    THEN Some(Str("Unknown Position", 16))
    ELSE PositionScan(t.position, 1)

extract_position_regex(t) == PositionScan(t.position, 1)

\* sanity check of extractor.py:250 and 265
LocationOk(s) == 3 < s.len /\ s.len < 200

RECURSIVE LabeledLocationScan(_, _)
LabeledLocationScan(caps, i) ==
    IF i > Len(caps) THEN None
    ELSE IF caps[i] # NoMatch /\ LocationOk(Clean(caps[i][1]))
         THEN Some(Clean(caps[i][1]))
         ELSE LabeledLocationScan(caps, i + 1)

extract_location_regex(t) ==
    LET loc == t.location
        labeled == LabeledLocationScan(loc.labeled, 1)
    IN  IF labeled # None THEN labeled
        ELSE IF loc.context # NoMatch /\ LocationOk(Clean(loc.context[1]))
             THEN Some(Clean(loc.context[1]))
        ELSE IF loc.city # NoMatch THEN Some(Stripped(loc.city[1]))
        ELSE IF loc.area # NoMatch THEN Some(Stripped(loc.area[1]))
        ELSE IF loc.remote THEN Some(Str("Remote", 6))
        ELSE None

\* extractor.py:322
LabeledSalaryOk(s) ==
    /\ s.id \in DigitIds \/ Lower(s.id) \in {Lower(n) : n \in NegotiableIds}
    /\ s.len < MAX_SALARY_TEXT_LENGTH
\* extractor.py:348
CurrencyFirstOk(s) ==
    s.id \in DigitIds /\ 3 < s.len /\ s.len < MAX_SALARY_TEXT_LENGTH
\* extractor.py:372
AmountFirstOk(s) ==
    s.id \in TwoDigitIds /\ 3 < s.len /\ s.len < MAX_SALARY_TEXT_LENGTH

RECURSIVE CurrencyFirstScan(_, _)
CurrencyFirstScan(caps, i) ==
    IF i > Len(caps) THEN None
    ELSE IF caps[i] # NoMatch /\ CurrencyFirstOk(Clean(caps[i][1]))
         THEN Some(Clean(caps[i][1]))
         ELSE CurrencyFirstScan(caps, i + 1)

RECURSIVE AmountFirstScan(_, _)
AmountFirstScan(caps, i) ==
    IF i > Len(caps) THEN None
    ELSE IF caps[i] # NoMatch /\ AmountFirstOk(Clean(caps[i][1]))
         THEN Some(Clean(caps[i][1]))
         ELSE AmountFirstScan(caps, i + 1)

extract_salary_regex(t) ==
    LET sal == t.salary
        currency == CurrencyFirstScan(sal.currency_first, 1)
        amount == AmountFirstScan(sal.amount_first, 1)
    IN  IF sal.labeled # NoMatch /\ LabeledSalaryOk(Clean(sal.labeled[1]))
             THEN Some(Clean(sal.labeled[1]))
        ELSE IF currency # None THEN currency
        ELSE IF amount # None THEN amount
        ELSE IF sal.contextual # NoMatch /\ Stripped(sal.contextual[1]).len < 100
             THEN Some(Clean(sal.contextual[1]))
        ELSE IF sal.negotiable # NoMatch
             THEN Some(Str(sal.negotiable[1].id, sal.negotiable[1].len))
        ELSE IF sal.standalone # NoMatch THEN Some(Clean(sal.standalone[1]))
        ELSE None

-----------------------------------------------------------------------------
(* The per-field Ollama calls.  resp is what ollama.generate does for the  *)
(* call: it raises, or returns a response text of resp.len characters of   *)
(* which strip() removes resp.pad.                                         *)

\* response['response'].strip() and the test shared by the six calls
\* (extractor.py:444-455): None on a raise, on the word "null", on an
\* empty result and on a result longer than the field's ceiling
Validated(resp, ceiling) ==
    IF resp.raises THEN None
    ELSE LET result == Str(resp.id, resp.len - resp.pad)
         IN  IF Lower(result.id) = "null" \/ result.len = 0
                \/ result.len > ceiling
             THEN None
             ELSE Some(result)

_extract_company(resp) == Validated(resp, 100)
_extract_position(resp) == Validated(resp, 150)
_extract_location(resp) == Validated(resp, 200)
_extract_salary(resp) == Validated(resp, 100)
_extract_deadline(resp) == Validated(resp, 50)

\* _extract_description without the truncation
DescriptionUntruncated(resp) == Validated(resp, 250)

\* extractor.py:663-674: result[:197] + "..." when longer than 200
_extract_description(resp) ==
    LET v == Validated(resp, 250)
    IN  IF v # None /\ v[1].len > 200
        THEN Some([id |-> v[1].id, len |-> 197 + 3, ell |-> TRUE])
        ELSE v

\* the Ollama call of a field
AgentCall(f, resp) ==
    CASE f = "company" -> _extract_company(resp)
      [] f = "position" -> _extract_position(resp)
      [] f = "location" -> _extract_location(resp)
      [] f = "salary" -> _extract_salary(resp)
      [] f = "deadline" -> _extract_deadline(resp)
      [] f = "description" -> _extract_description(resp)

\* RegexCall with the position fallback calling the company extractor
RegexCallCopied(f, t) ==
    CASE f = "company" -> extract_company_regex(t)
      [] f = "position" -> extract_company_regex(t)
      [] f = "location" -> extract_location_regex(t)
      [] f = "salary" -> extract_salary_regex(t)

\* the pattern extractor of a field with a fallback
RegexCall(f, t) ==
    CASE f = "company" -> extract_company_regex(t)
      [] f = "position" -> extract_position_regex(t)
      [] f = "location" -> extract_location_regex(t)
      [] f = "salary" -> extract_salary_regex(t)

\* dateparser.parse(deadline_str, ...) of extractor.py:777-788: the date
\* the answer denotes; None when it denotes none or the parse raises
ParseAnswer(resp) == IF resp.parse = "ok" THEN Some(resp.date) ELSE None

\* _extract_with_regex_only filling company and position with the
\* placeholders of _get_default_job_data (extractor.py:15-16, 850-852)
RegexOnlyWithDefaults(t, u) ==
    [company |-> IF extract_company_regex(t) = None
                 THEN Some(Str("Unknown Company", 15))
                 ELSE extract_company_regex(t),
     position |-> IF extract_position_regex(t) = None
                  THEN Some(Str("Unknown Position", 16))
                  ELSE extract_position_regex(t),
     location |-> extract_location_regex(t),
     salary |-> extract_salary_regex(t),
     deadline |-> None,
     description |-> None,
     url |-> u,
     added_on |-> None]

\* extractor.py:695-705
_extract_with_regex_only(t, u) ==
    [company |-> extract_company_regex(t),
     position |-> extract_position_regex(t),
     location |-> extract_location_regex(t),
     salary |-> extract_salary_regex(t),
     deadline |-> None,
     description |-> None,
     url |-> u,
     added_on |-> None]

\* extractor.py:740-748
EmptyJobData(u) ==
    [company |-> None, position |-> None, deadline |-> None,
     salary |-> None, location |-> None, description |-> None,
     url |-> u, added_on |-> None]

\* MergedDeadline with the regex deadline taking precedence
RegexDeadlineFirst(regex_deadline, jd) ==
    IF regex_deadline # None THEN regex_deadline ELSE jd.deadline

\* extractor.py:826-827: the regex deadline is used only when the
\* dictionary has none
MergedDeadline(regex_deadline, jd) ==
    IF regex_deadline # None /\ jd.deadline = None
    THEN regex_deadline
    ELSE jd.deadline

-----------------------------------------------------------------------------
(* Inputs *)

Fields == {"company", "position", "location", "salary", "deadline",
           "description"}
FallbackFields == {"company", "position", "location", "salary"}

\* keywords and formats of the date phrases of the modelled texts
InputKeywords == {"none", "deadline", "apply by", "application deadline"}
Formats == {"NUM", "DMY", "MDY"}

\* a date phrase: the keyword before the date token ("none" for a bare
\* date), the token's format, what dateparser does with the token and,
\* when it resolves, the date written
Phrases ==
    [kw : InputKeywords, fmt : Formats, parse : {"ok"}, date : Instants]
    \cup [kw : InputKeywords, fmt : Formats, parse : {"none", "raise"},
          date : {0}]

PhraseSeqs == UNION {[1..n -> Phrases] : n \in 0..MaxPhrases}

\* the rule captures of a text in which no field rule matches
NoCompany == <<NoMatch, NoMatch, NoMatch, NoMatch, NoMatch, NoMatch>>
NoPosition ==
    <<NoMatch, NoMatch, NoMatch, NoMatch, NoMatch, NoMatch, NoMatch>>
NoLocation ==
    [labeled |-> <<NoMatch, NoMatch>>, context |-> NoMatch,
     city |-> NoMatch, area |-> NoMatch, remote |-> FALSE]
NoSalary ==
    [labeled |-> NoMatch, currency_first |-> <<NoMatch, NoMatch>>,
     amount_first |-> <<NoMatch, NoMatch>>, contextual |-> NoMatch,
     negotiable |-> NoMatch, standalone |-> NoMatch]

\* texts of the deadline specification: any date phrases, no field rule
DeadlineTexts ==
    [phrases : PhraseSeqs, company : {NoCompany}, position : {NoPosition},
     location : {NoLocation}, salary : {NoSalary}]

CompanyInputs ==
    { NoCompany,
      \* "Company: Acme Corporation is hiring"
      [NoCompany EXCEPT ![1] = Cap("Acme Corporation", 17, 1, 0)],
      \* "Company: Job" (rejected), "Beta Group Ltd is hiring"
      [NoCompany EXCEPT ![1] = Cap("Job", 3, 0, 0),
                        ![4] = Cap("Beta Group Ltd", 14, 0, 0)],
      \* "Organization: Role" (a generic word, rejected)
      [NoCompany EXCEPT ![2] = Cap("Role", 4, 0, 0)] }

PositionInputs ==
    { NoPosition,
      [NoPosition EXCEPT ![1] = Cap("Backend Engineer", 16, 0, 0)] }

LocationInputs ==
    { NoLocation,
      [NoLocation EXCEPT !.labeled = <<Cap("Dhaka, Bangladesh", 18, 1, 0),
                                       Cap("Dhaka, Bangladesh", 18, 1, 0)>>,
                         !.context = Cap("Dhaka, Bangladesh", 17, 0, 0),
                         !.city = Cap("Dhaka", 5, 0, 0)] }

SalaryInputs ==
    { NoSalary,
      [NoSalary EXCEPT !.labeled = Cap("BDT 40,000 - 55,000", 19, 0, 0),
                       !.currency_first =
                           <<Cap("BDT 40,000 - 55,000", 19, 0, 0),
                             Cap("BDT 40,000", 10, 0, 0)>>,
                       !.contextual = Cap("40,000 - 55,000", 15, 0, 0),
                       !.standalone = Cap("40,000 - 55,000", 15, 0, 0)] }

\* a line of a text of the salary specification: its label ("Salary:", a
\* salary keyword followed by a blank, another label, none), the text
\* after the label, the number range in it, where the currency marker
\* stands, the currency-marked range, the currency-marked single amount,
\* a salary word, whether the numbers are thousands-separated, and what
\* the range describes
SalaryLine(label, rest, range, cur, money, single, word, big, kind) ==
    [label |-> label, rest |-> rest, range |-> range, cur |-> cur,
     money |-> money, single |-> single, word |-> word, big |-> big,
     kind |-> kind]

SalaryLines ==
    { \* "Age: 25-30"
      SalaryLine("other", "25-30", "25-30", "none", "", "", "", FALSE, "age"),
      \* "Experience: 2-3 years"
      SalaryLine("other", "2-3 years", "2-3", "none", "", "", "", FALSE,
                 "experience"),
      \* "Team size: 10-15 people"
      SalaryLine("other", "10-15 people", "10-15", "none", "", "", "", FALSE,
                 "team"),
      \* "Working hours: 9-5"
      SalaryLine("other", "9-5", "9-5", "none", "", "", "", FALSE, "hours"),
      \* "Salary: Tk. 50,000 - 70,000"
      SalaryLine("Salary:", "Tk. 50,000 - 70,000", "50,000 - 70,000",
                 "before", "Tk. 50,000 - 70,000", "Tk. 50,000", "", TRUE,
                 "salary"),
      \* "Salary: Competitive"
      SalaryLine("Salary:", "Competitive", "", "none", "", "", "Competitive",
                 FALSE, "none"),
      \* "Salary: Negotiable"
      SalaryLine("Salary:", "Negotiable", "", "none", "", "", "Negotiable",
                 FALSE, "none"),
      \* "We offer Tk. 22,000 - 30,000 per month"
      SalaryLine("none", "We offer Tk. 22,000 - 30,000 per month",
                 "22,000 - 30,000", "before",
                 "Tk. 22,000 - 30,000 per month", "Tk. 22,000", "", TRUE,
                 "salary"),
      \* "We offer 22,000 - 30,000 BDT"
      SalaryLine("none", "We offer 22,000 - 30,000 BDT", "22,000 - 30,000",
                 "after", "22,000 - 30,000 BDT", "30,000 BDT", "", TRUE,
                 "salary"),
      \* "No salary mentioned in this text"
      SalaryLine("Salary", "mentioned in this text", "", "none", "", "", "",
                 FALSE, "none") }

\* the whole of a matched piece of text as a capture
Whole(id) == Cap(id, Len(id), 0, 0)

\* the first index of a non-empty set of line numbers (re.search returns
\* the leftmost match)
First(S) == CHOOSE i \in S : \A j \in S : i <= j

\* what the rules of extract_salary_regex capture in a text made of the
\* given lines, separated by newlines
SalaryCaptures(lines) ==
    LET labeled == {i \in DOMAIN lines : lines[i].label = "Salary:"}
        before == {i \in DOMAIN lines : lines[i].cur = "before"}
        after == {i \in DOMAIN lines : lines[i].cur = "after"}
        keyword ==
            {i \in DOMAIN lines : lines[i].label \in {"Salary:", "Salary"}}
        ranged(k) == {j \in DOMAIN lines : j >= k /\ lines[j].range # ""}
        worded == {i \in keyword : lines[i].word # ""}
        big == {i \in DOMAIN lines : lines[i].big}
    IN  [labeled |->
             IF labeled = {} THEN NoMatch
             ELSE Whole(lines[First(labeled)].rest),
         currency_first |->
             IF before = {} THEN <<NoMatch, NoMatch>>
             ELSE <<Whole(lines[First(before)].money),
                    Whole(lines[First(before)].single)>>,
         amount_first |->
             IF after = {} THEN <<NoMatch, NoMatch>>
             ELSE <<Whole(lines[First(after)].money),
                    Whole(lines[First(after)].single)>>,
         contextual |->
             IF keyword = {} \/ ranged(First(keyword)) = {} THEN NoMatch
             ELSE Whole(lines[First(ranged(First(keyword)))].range),
         negotiable |->
             IF worded = {} THEN NoMatch
             ELSE Whole(lines[First(worded)].word),
         standalone |->
             IF big = {} THEN NoMatch
             ELSE Whole(lines[First(big)].range)]

\* texts of the salary specification: up to MaxLines lines, no date
SalaryTexts ==
    { [lines |-> ls, phrases |-> <<>>, company |-> NoCompany,
       position |-> NoPosition, location |-> NoLocation,
       salary |-> SalaryCaptures(ls)]
        : ls \in UNION {[1..n -> SalaryLines] : n \in 0..MaxLines} }

\* A text of labeled values, written in the order Company, Position,
\* Location, Salary, Deadline.  A segment is "<label>: <value><tail>"
\* followed by sep: "." (a full stop, then a blank unless the text ends)
\* or "\n"
ScenarioFields ==
    << [label |-> "Company", value |-> "Acme Corporation",
        tail |-> " is hiring"],
       [label |-> "Position", value |-> "Backend Engineer", tail |-> ""],
       [label |-> "Location", value |-> "Dhaka", tail |-> ""],
       [label |-> "Salary", value |-> "BDT 40,000 - 55,000", tail |-> ""],
       [label |-> "Deadline", value |-> "15/02/2026", tail |-> ""] >>

\* the segments of the text in which field i is absent or ends in c[i]
Segments(c) ==
    SelectSeq([i \in 1..Len(ScenarioFields) |->
                  [label |-> ScenarioFields[i].label,
                   value |-> ScenarioFields[i].value,
                   tail |-> ScenarioFields[i].tail,
                   sep |-> c[i]]],
              LAMBDA seg : seg.sep # "absent")

\* a segment as written, without the line break
Written(seg) ==
    seg.label \o ": " \o seg.value \o seg.tail
        \o (IF seg.sep = "." THEN "." ELSE "")

\* the text from the value of segment k to the end of its line
RECURSIVE LineAfter(_, _)
LineAfter(segs, k) ==
    IF k >= Len(segs) \/ segs[k].sep = "\n" THEN ""
    ELSE " " \o Written(segs[k + 1]) \o LineAfter(segs, k + 1)

RestOfLine(segs, k) ==
    segs[k].value \o segs[k].tail
        \o (IF segs[k].sep = "." THEN "." ELSE "") \o LineAfter(segs, k)

\* the segments with a label
Labeled(segs, label) == {k \in DOMAIN segs : segs[k].label = label}

\* what the rules of extract_company_regex capture: the value runs up to
\* the word "is" (rule 1); rules 4 and 6 find the same name before
\* "is hiring"
ScenarioCompany(segs) ==
    IF Labeled(segs, "Company") = {} THEN NoCompany
    ELSE LET v == segs[First(Labeled(segs, "Company"))].value
         IN  [NoCompany EXCEPT ![1] = Cap(v, Len(v) + 1, 1, 0),
                               ![4] = Whole(v), ![6] = Whole(v)]

\* rule 1 of extract_position_regex: its character class has no full
\* stop, so the value must be followed at once by a line end
ScenarioPosition(segs) ==
    IF Labeled(segs, "Position") = {} THEN NoPosition
    ELSE LET seg == segs[First(Labeled(segs, "Position"))]
         IN  IF seg.sep = "\n"
             THEN [NoPosition EXCEPT ![1] = Whole(seg.value)]
             ELSE NoPosition

\* the labeled rules of extract_location_regex capture the rest of the
\* line, of which the substitutions keep what stands before the first
\* "Salary:" or "Deadline:"; the context rule captures the city, the
\* blank before it and the letters after it; the city rule the city
ScenarioLocation(segs) ==
    IF Labeled(segs, "Location") = {} THEN NoLocation
    ELSE LET k == First(Labeled(segs, "Location"))
             kept == segs[k].value \o (IF segs[k].sep = "." THEN "." ELSE "")
             rest == RestOfLine(segs, k)
             labeled == Cap(kept, Len(rest), 0, Len(rest) - Len(kept))
             context ==
                 IF segs[k].sep = "\n" /\ k < Len(segs)
                 THEN Cap(segs[k].value \o " " \o segs[k + 1].label,
                          Len(segs[k].value) + Len(segs[k + 1].label) + 2,
                          1, 0)
                 ELSE Cap(segs[k].value, Len(segs[k].value) + 1, 1, 0)
         IN  [NoLocation EXCEPT !.labeled = <<labeled, labeled>>,
                                !.context = context,
                                !.city = Whole(segs[k].value)]

\* the labeled rule of extract_salary_regex captures the rest of the line
ScenarioSalary(segs) ==
    IF Labeled(segs, "Salary") = {} THEN NoSalary
    ELSE LET k == First(Labeled(segs, "Salary"))
         IN  [NoSalary EXCEPT
                 !.labeled = Whole(RestOfLine(segs, k)),
                 !.currency_first =
                     <<Whole(segs[k].value), Whole("BDT 40,000")>>,
                 !.contextual = Whole("40,000 - 55,000"),
                 !.standalone = Whole("40,000 - 55,000")]

\* "Deadline: 15/02/2026" is matched by config.DATE_PATTERNS[0]; date is
\* the instant dateparser resolves it to
ScenarioPhrases(segs, date) ==
    IF Labeled(segs, "Deadline") = {} THEN <<>>
    ELSE <<[kw |-> "deadline", fmt |-> "NUM", parse |-> "ok", date |-> date]>>

LabeledText(segs, date) ==
    [kind |-> "labeled", segs |-> segs,
     phrases |-> ScenarioPhrases(segs, date),
     company |-> ScenarioCompany(segs), position |-> ScenarioPosition(segs),
     location |-> ScenarioLocation(segs), salary |-> ScenarioSalary(segs)]

LabeledTexts ==
    { LabeledText(Segments(c), date) :
        c \in [1..Len(ScenarioFields) -> {"absent", ".", "\n"}],
        date \in Instants }

\* a text "Send your CV to <local>@<domain>" followed by the end of the
\* text, a new line, " is the address" or ". Apply now"
Emails ==
    [local : {"hr"},
     domain : {"techcorp.com", "techcorp.com.bd", "acme.group",
               "techcorp.ltd"},
     after : {"end", "newline", "is", "sentence"}]

\* the domains that end in one of the words of rule 6 of
\* extract_company_regex (Limited, Ltd, Inc, Corporation, Group,
\* International, Bangladesh), letter case ignored
SuffixDomains == {"acme.group", "techcorp.ltd"}

\* rule 6 of extract_company_regex: "@" is outside its character class
\* and "." inside, so its group can start right after the "@" and must
\* end in a suffix word followed by a line end, "is" or "hiring"
EmailCompany(e) ==
    IF e.domain \in SuffixDomains /\ e.after \in {"end", "newline", "is"}
    THEN [NoCompany EXCEPT ![6] = Whole(e.domain)]
    ELSE NoCompany

EmailTexts ==
    { [kind |-> "email", email |-> e, phrases |-> <<>>,
       company |-> EmailCompany(e), position |-> NoPosition,
       location |-> NoLocation, salary |-> NoSalary] : e \in Emails }

\* texts with a place name and no label: "Join us in Dhaka", "Office in
\* Dhaka <250 digits>", "Visit us at Gulshan <250 digits>"
PlaceTexts ==
    { [kind |-> "place", phrases |-> <<>>, company |-> NoCompany,
       position |-> NoPosition, location |-> loc, salary |-> NoSalary]
        : loc \in
            { [NoLocation EXCEPT !.context = Cap("Join us in Dhaka", 16, 0, 0),
                                 !.city = Cap("Dhaka", 5, 0, 0)],
              [NoLocation EXCEPT
                  !.context = Cap("Office in Dhaka 1219...", 266, 0, 0),
                  !.city = Cap("Dhaka 1219...", 256, 0, 0)],
              [NoLocation EXCEPT
                  !.area = Cap("Gulshan 2...", 258, 0, 0)] } }

\* the date phrases of the texts of the pipeline specification: a bare
\* numeric date, "Deadline: <numeric date>", "Deadline: <Month DD, YYYY>"
PipelinePhrases ==
    { ph \in Phrases :
        /\ ph.parse = "ok"
        /\ \/ ph.kw = "none" /\ ph.fmt = "NUM"
           \/ ph.kw = "deadline" /\ ph.fmt \in {"NUM", "MDY"} }

PipelineTexts ==
    [phrases : {<<>>} \cup {<<ph>> : ph \in PipelinePhrases},
     company : CompanyInputs, position : PositionInputs,
     location : LocationInputs, salary : SalaryInputs]

\* texts with at most one date phrase and no field value
DatedTexts ==
    [kind : {"dated"},
     phrases : {<<>>} \cup {<<ph>> : ph \in PipelinePhrases},
     company : {NoCompany}, position : {NoPosition},
     location : {NoLocation}, salary : {NoSalary}]

\* texts of the pattern-only specification
PatternOnlyTexts ==
    LabeledTexts \cup EmailTexts \cup PlaceTexts \cup DatedTexts

Urls == {None, Some("https://example.com/job")}

\* what ollama.generate can do for a field's call: raise, answer "null" in
\* either case, answer blanks, answer more than the field's ceiling, or
\* answer a value
Raise == [raises |-> TRUE, id |-> "", len |-> 0, pad |-> 0]
Answer(id, len, pad) == [raises |-> FALSE, id |-> id, len |-> len, pad |-> pad]

Responses(f) ==
    {Raise, Answer("null", 5, 1), Answer("NULL", 4, 0), Answer("", 2, 2)}
    \cup
    CASE f = "company" ->
             {Answer("TechCorp", 9, 1), Answer("long", 101, 0)}
      [] f = "position" ->
             {Answer("Data Analyst", 12, 0), Answer("long", 151, 0)}
      [] f = "location" ->
             {Answer("Gulshan 2, Dhaka", 16, 0), Answer("long", 201, 0)}
      [] f = "salary" ->
             {Answer("Negotiable", 10, 0), Answer("long", 101, 0)}
      [] f = "description" ->
             {Answer("summary", 80, 0), Answer("long", 251, 0)}

\* the deadline call's answers carry what dateparser does with them
DeadlineResponses ==
    { [r \in {"raises", "id", "len", "pad", "parse", "date"} |->
          IF r = "parse" THEN "none" ELSE IF r = "date" THEN 0 ELSE a[r]]
        : a \in {Raise, Answer("null", 4, 0), Answer("", 1, 1),
                 Answer("long", 51, 0), Answer("no deadline", 11, 0)} }
    \cup
    { [raises |-> FALSE, id |-> "date", len |-> 10, pad |-> 0,
       parse |-> p, date |-> 0] : p \in {"none", "raise"} }
    \cup
    { [raises |-> FALSE, id |-> "date", len |-> 10, pad |-> 0,
       parse |-> "ok", date |-> d] : d \in Instants }

-----------------------------------------------------------------------------
(* State machine of one call of extract_job_details(text, url) *)

\* the sheet and the reminder check before any command or trigger
IdleSheet ==
    /\ sheet = <<>>
    /\ today = 0
    /\ fired = FALSE
    /\ sent = {}
    /\ listed = <<>>
    /\ marked = None

\* the users who write to the bot: the one of config.TELEGRAM_USER_ID and
\* another one
Owner == "owner"
Stranger == "stranger"
Users == {Owner, Stranger}

\* context.user_data of every user is empty
NoPending == [u \in Users |-> None]

\* the chat before any update
IdleChat ==
    /\ TELEGRAM_USER_ID = None
    /\ pending_job = NoPending
    /\ added = None
    /\ last = None
    /\ dialogue = NoPending

\* the scraper before any request
IdleFetch ==
    /\ web = None
    /\ scrape = None
    /\ tried = <<>>

\* where main() is (not called, entered) or how it ended: by sys.exit(1), by an exception, or inside run_polling;
\* whether the handlers were registered and schedule_reminders was called
Ended(how, handlers, reminders) ==
    [end |-> how, handlers |-> handlers, reminders |-> reminders]

\* main() not called
IdleMain ==
    /\ environ = None
    /\ startup = Ended("none", FALSE, FALSE)

\* reminder.py:21
IdleScheduler ==
    /\ _scheduler = None
    /\ schedulers = <<>>

IdleTransport ==
    /\ IdleSheet
    /\ IdleChat
    /\ IdleFetch
    /\ IdleMain
    /\ IdleScheduler

ExtractorStart ==
    /\ pc = "start"
    /\ deadline = None
    /\ job_data = None
    /\ called = {}
    /\ agent = [f \in Fields |-> None]
    /\ resolved = None
    /\ handled = FALSE
    /\ backend = "unknown"
    /\ clock = Now
    /\ previous = None
    /\ stamps = 0
    /\ response = None

InitCommon == ExtractorStart /\ IdleTransport

\* no extraction is under way: the state of the specifications of the
\* adapters
ExtractorIdle ==
    /\ text = None
    /\ url = None
    /\ OLLAMA_AVAILABLE = FALSE
    /\ ExtractorStart

extraction == <<text, url, OLLAMA_AVAILABLE, pc, deadline, job_data,
                called, agent, resolved, handled, backend, clock, previous,
                stamps, response>>

Init ==
    /\ text \in PipelineTexts
    /\ url \in Urls
    /\ OLLAMA_AVAILABLE \in BOOLEAN
    /\ InitCommon

InitDeadline ==
    /\ text \in DeadlineTexts
    /\ url = None
    /\ OLLAMA_AVAILABLE = FALSE
    /\ InitCommon

\* extractor.py:820: step 1.  re.findall is evaluated outside any try, so
\* an exception of the regex engine leaves extract_job_details
RunDeadlineRegex ==
    /\ pc = "start"
    /\ \E fails \in BOOLEAN :
         IF fails
         THEN pc' = "raised" /\ deadline' = deadline
         ELSE pc' = "ollama" /\ deadline' = extract_deadline_regex(text)
    /\ UNCHANGED <<transport, text, url, OLLAMA_AVAILABLE, job_data, called, agent,
                   resolved, handled, backend, clock, previous, stamps,
                   response>>

\* extractor.py:722-724
OllamaNotInstalled ==
    /\ pc = "ollama"
    /\ ~OLLAMA_AVAILABLE
    /\ pc' = "regex_only"
    /\ backend' = "not_installed"
    /\ UNCHANGED <<transport, text, url, OLLAMA_AVAILABLE, deadline, job_data, called,
                   agent, resolved, handled, clock, previous, stamps,
                   response>>

\* extractor.py:726-748: ollama.list() either answers or raises
OllamaProbe ==
    /\ pc = "ollama"
    /\ OLLAMA_AVAILABLE
    /\ \E reachable \in BOOLEAN :
         IF reachable
         THEN /\ pc' = "company"
              /\ job_data' = Some(EmptyJobData(url))
              /\ backend' = "reachable"
         ELSE /\ pc' = "regex_only"
              /\ job_data' = job_data
              /\ backend' = "unreachable"
    /\ UNCHANGED <<transport, text, url, OLLAMA_AVAILABLE, deadline, called, agent,
                   resolved, handled, clock, previous, stamps, response>>

\* _extract_with_regex_only, called at extractor.py:724, 733 and 799, none
\* of them inside a try: an exception of a pattern extractor leaves
\* extract_job_details
RegexOnly ==
    /\ pc = "regex_only"
    /\ \E fails \in BOOLEAN :
         IF fails
         THEN pc' = "raised" /\ job_data' = None
         ELSE /\ pc' = "merge"
              /\ job_data' = Some(_extract_with_regex_only(text, url))
    /\ UNCHANGED <<transport, text, url, OLLAMA_AVAILABLE, deadline, called, agent,
                   resolved, handled, backend, clock, previous, stamps,
                   response>>

\* PASS 1-4 (extractor.py:750-772): the Ollama call of field f and, when
\* it gives None, the pattern extractor.  An exception of the pattern
\* extractor is caught at extractor.py:796, whose handler drops the
\* dictionary and calls _extract_with_regex_only
FieldPass(f, next) ==
    /\ pc = f
    /\ \E resp \in Responses(f), fails \in BOOLEAN :
         LET r == AgentCall(f, resp)
         IN  /\ called' = called \cup {f}
             /\ agent' = [agent EXCEPT ![f] = r]
             /\ IF r # None
                THEN /\ job_data' = Some([job_data[1] EXCEPT ![f] = r])
                     /\ pc' = next
                     /\ handled' = handled
                ELSE IF fails
                THEN /\ job_data' = None
                     /\ pc' = "regex_only"
                     /\ handled' = TRUE
                ELSE /\ job_data' =
                          Some([job_data[1] EXCEPT ![f] = RegexCall(f, text)])
                     /\ pc' = next
                     /\ handled' = handled
    /\ UNCHANGED <<transport, text, url, OLLAMA_AVAILABLE, deadline, resolved, backend,
                   clock, previous, stamps, response>>

PassCompany == FieldPass("company", "position")
PassPosition == FieldPass("position", "location")
PassLocation == FieldPass("location", "salary")
PassSalary == FieldPass("salary", "deadline")

\* PASS 5 (extractor.py:774-788)
PassDeadline ==
    /\ pc = "deadline"
    /\ \E resp \in DeadlineResponses :
         LET deadline_str == AgentCall("deadline", resp)
             parsed == IF deadline_str # None THEN ParseAnswer(resp) ELSE None
         IN  /\ called' = called \cup {"deadline"}
             /\ agent' = [agent EXCEPT !["deadline"] = deadline_str]
             /\ job_data' = Some([job_data[1] EXCEPT !.deadline = parsed])
             /\ resolved' = parsed
    /\ pc' = "description"
    /\ UNCHANGED <<transport, text, url, OLLAMA_AVAILABLE, deadline, handled, backend,
                   clock, previous, stamps, response>>

\* PASS 6 (extractor.py:790-794)
PassDescription ==
    /\ pc = "description"
    /\ \E resp \in Responses("description") :
         LET r == AgentCall("description", resp)
         IN  /\ called' = called \cup {"description"}
             /\ agent' = [agent EXCEPT !["description"] = r]
             /\ job_data' = Some([job_data[1] EXCEPT !.description = r])
    /\ pc' = "merge"
    /\ UNCHANGED <<transport, text, url, OLLAMA_AVAILABLE, deadline, resolved, handled,
                   backend, clock, previous, stamps, response>>

\* extractor.py:825-837
Finish ==
    /\ pc = "merge"
    /\ job_data' =
         Some([job_data[1] EXCEPT
                 !.deadline = MergedDeadline(deadline, job_data[1]),
                 !.url = IF url # None THEN url ELSE @,
                 !.added_on = Some(clock)])
    /\ stamps' = stamps + 1
    /\ pc' = "done"
    /\ UNCHANGED <<transport, text, url, OLLAMA_AVAILABLE, deadline, called, agent,
                   resolved, handled, backend, clock, previous, response>>

Next ==
    \/ RunDeadlineRegex
    \/ OllamaNotInstalled
    \/ OllamaProbe
    \/ RegexOnly
    \/ PassCompany
    \/ PassPosition
    \/ PassLocation
    \/ PassSalary
    \/ PassDeadline
    \/ PassDescription
    \/ Finish

Spec == Init /\ [][Next]_vars

\* extract_deadline_regex alone, on texts with up to MaxPhrases phrases
NextDeadline == RunDeadlineRegex

SpecDeadline == InitDeadline /\ [][NextDeadline]_vars

\* the caller's next call of extract_job_details on the same text and
\* url, at a later reading of the clock: nothing of the first call is kept
\* but the record it returned
CallAgain ==
    /\ pc = "done"
    /\ previous = None
    /\ previous' = job_data
    /\ \E later \in clock..MaxDay : clock' = later
    /\ pc' = "start"
    /\ deadline' = None
    /\ job_data' = None
    /\ called' = {}
    /\ agent' = [f \in Fields |-> None]
    /\ resolved' = None
    /\ handled' = FALSE
    /\ backend' = "unknown"
    /\ stamps' = 0
    /\ UNCHANGED <<transport, text, url, OLLAMA_AVAILABLE, response>>

\* two calls of extract_job_details with no backend installed
InitPatternOnly ==
    /\ text \in PatternOnlyTexts
    /\ url \in Urls
    /\ OLLAMA_AVAILABLE = FALSE
    /\ InitCommon

NextPatternOnly ==
    \/ RunDeadlineRegex
    \/ OllamaNotInstalled
    \/ RegexOnly
    \/ Finish
    \/ CallAgain

SpecPatternOnly == InitPatternOnly /\ [][NextPatternOnly]_vars

\* save_job_to_sheet keeping the timestamp test out
StampAlways(jd, now) == [jd EXCEPT !.added_on = Some(now)]

\* bot.py:431-433: the timestamp is set when the dictionary has none
StampIfAbsent(jd, now) ==
    IF jd.added_on = None THEN [jd EXCEPT !.added_on = Some(now)] ELSE jd

\* bot.py:416-436: the bot saves the record extract_job_details returned,
\* at a later reading of the clock.  The dictionary always has the key
\* 'url' (extractor.py:703, 747), so bot.py:427-428 leaves it alone
save_job_to_sheet ==
    /\ pc = "done"
    /\ \E later \in clock..MaxDay :
         /\ clock' = later
         /\ job_data' = Some(StampIfAbsent(job_data[1], later))
    /\ stamps' = IF job_data[1].added_on = None THEN stamps + 1 ELSE stamps
    /\ pc' = "saved"
    /\ UNCHANGED <<transport, text, url, OLLAMA_AVAILABLE, deadline, called, agent,
                   resolved, handled, backend, previous, response>>

\* the texts of the save specification: a date phrase and a salary at most
SaveTexts ==
    { t \in PipelineTexts :
        /\ t.company = NoCompany /\ t.position = NoPosition
        /\ t.location = NoLocation }

\* one extraction, with or without a backend, and the save of its record
InitSave ==
    /\ text \in SaveTexts
    /\ url \in Urls
    /\ OLLAMA_AVAILABLE \in BOOLEAN
    /\ InitCommon

NextSave ==
    \/ Next
    \/ save_job_to_sheet

SpecSave == InitSave /\ [][NextSave]_vars

\* the length ceiling of each Ollama call (extractor.py:447, 489, 536,
\* 584, 626, 668)
Ceiling(f) ==
    CASE f = "company" -> 100
      [] f = "position" -> 150
      [] f = "location" -> 200
      [] f = "salary" -> 100
      [] f = "deadline" -> 50
      [] f = "description" -> 250

\* what ollama.generate can do for the call of field f: raise, answer the
\* word null in some letter case, answer blanks only, or answer a value of
\* 1, 200, 201, Ceiling(f) or Ceiling(f) + 1 characters; each answer with
\* or without a blank around it
AgentResponses(f) ==
    {Raise}
    \cup {Answer(id, 4 + pad, pad) : id \in {"null", "NULL", "Null"},
                                     pad \in 0..1}
    \cup {Answer("", pad, pad) : pad \in 0..1}
    \cup {Answer("value", n + pad, pad) :
             n \in {1, 200, 201, Ceiling(f), Ceiling(f) + 1}, pad \in 0..1}

\* one Ollama call of one field
InitAgent ==
    /\ text \in {t \in PipelineTexts : t.phrases = <<>> /\ t \in SaveTexts}
    /\ url = None
    /\ OLLAMA_AVAILABLE = TRUE
    /\ pc = "agent"
    /\ deadline = None
    /\ job_data = None
    /\ called = {}
    /\ agent = [f \in Fields |-> None]
    /\ resolved = None
    /\ handled = FALSE
    /\ backend = "reachable"
    /\ clock = Now
    /\ previous = None
    /\ stamps = 0
    /\ response \in UNION {{Some([field |-> f, resp |-> r]) :
                                r \in AgentResponses(f)} : f \in Fields}
    /\ IdleTransport

RunAgentCall ==
    /\ pc = "agent"
    /\ pc' = "agent_done"
    /\ called' = {response[1].field}
    /\ agent' = [agent EXCEPT ![response[1].field] =
                                  AgentCall(response[1].field, response[1].resp)]
    /\ UNCHANGED <<transport, text, url, OLLAMA_AVAILABLE, deadline, job_data, resolved,
                   handled, backend, clock, previous, stamps, response>>

NextAgent == RunAgentCall

SpecAgent == InitAgent /\ [][NextAgent]_vars

\* extract_salary_regex alone, on texts of up to MaxLines lines
InitSalary ==
    /\ text \in SalaryTexts
    /\ url = None
    /\ OLLAMA_AVAILABLE = FALSE
    /\ InitCommon

RunSalaryRegex ==
    /\ pc = "start"
    /\ pc' = "salary"
    /\ job_data' =
         Some([EmptyJobData(url) EXCEPT !.salary = extract_salary_regex(text)])
    /\ UNCHANGED <<transport, text, url, OLLAMA_AVAILABLE, deadline, called, agent,
                   resolved, handled, backend, clock, previous, stamps,
                   response>>

NextSalary == RunSalaryRegex

SpecSalary == InitSalary /\ [][NextSalary]_vars

-----------------------------------------------------------------------------
(* Properties *)

Returned == pc = "done"
Record == job_data[1]

C2_NullFallsBackToPattern ==
    (Returned /\ backend = "reachable") =>
        /\ ("company" \in called /\ agent["company"] = None)
              => Record.company = extract_company_regex(text)
        /\ ("position" \in called /\ agent["position"] = None)
              => Record.position = extract_position_regex(text)
        /\ ("location" \in called /\ agent["location"] = None)
              => Record.location = extract_location_regex(text)
        /\ ("salary" \in called /\ agent["salary"] = None)
              => Record.salary = extract_salary_regex(text)
        /\ ("description" \in called /\ agent["description"] = None)
              => Record.description = None

\* all six calls were made, position and description returned null, the
\* position is the pattern extractor's value and the company is Ollama's
C2_Witness ==
    /\ Returned /\ backend = "reachable" /\ called = Fields
    /\ agent["position"] = None /\ Record.position # None
    /\ Record.position = extract_position_regex(text)
    /\ agent["company"] # None /\ Record.company = agent["company"]
    /\ agent["description"] = None /\ Record.description = None

\* C3: when the backend is not installed or ollama.list fails no Ollama
\* call is made, and in the record company, position, location, salary
\* and deadline are the pattern extractors' results and description is
\* null.
C3_NoBackendIsPatternOnly ==
    backend \in {"not_installed", "unreachable"} =>
        /\ called = {}
        /\ Returned =>
              /\ Record.company = extract_company_regex(text)
              /\ Record.position = extract_position_regex(text)
              /\ Record.location = extract_location_regex(text)
              /\ Record.salary = extract_salary_regex(text)
              /\ Record.deadline = extract_deadline_regex(text)
              /\ Record.description = None

\* the probe failed and the record holds a pattern deadline, a pattern
\* salary and no company
C3_Witness ==
    /\ Returned /\ backend = "unreachable" /\ OLLAMA_AVAILABLE
    /\ Record.deadline # None /\ Record.salary # None
    /\ Record.company = None

\* C4: extract_job_details always returns a record; no exception reaches
\* its caller, whatever fails (backend, date parsing, pattern rules).
C4_NeverRaises == pc # "raised"

\* C5: with the backend reachable every one of the six Ollama calls is
\* made whatever the other calls did, and the validated result of each
\* call that gave one is in the record.
C5_AgentCallsIndependent ==
    (Returned /\ backend = "reachable") =>
        /\ called = Fields
        /\ \A f \in Fields \ {"deadline"} :
              agent[f] # None => Record[f] = agent[f]
        /\ resolved # None => Record.deadline = resolved

\* C6: in a returned record company, position, location, salary and
\* description are null or non-empty, and one of them is null only when
\* neither its Ollama call nor its pattern rules gave a validated value.
C6_NullOrNonEmpty ==
    Returned =>
        \A f \in Fields \ {"deadline"} :
            /\ Record[f] # None => Record[f][1].len > 0
            /\ Record[f] = None =>
                  /\ agent[f] = None
                  /\ f \in FallbackFields => RegexCall(f, text) = None

\* the first match of DATE_PATTERNS[i] in the text resolves to a date
Anchored(t, i) ==
    LET m == FindAll(DATE_PATTERNS[i], t.phrases)
    IN  m # <<>> /\ m[1].parse = "ok"

\* the standalone dates that resolve to an instant after Now, each named
\* by the index of its standalone pattern and its place in the text
FutureSlots(t) ==
    { s \in (1..Len(date_only_patterns)) \X (1..Len(t.phrases)) :
        /\ t.phrases[s[2]].fmt = date_only_patterns[s[1]]
        /\ t.phrases[s[2]].parse = "ok"
        /\ t.phrases[s[2]].date > Now }

\* scan order: by standalone pattern, then by place in the text
ScansBefore(a, b) == a[1] < b[1] \/ (a[1] = b[1] /\ a[2] <= b[2])

C8_DeadlinePhraseDate ==
    Returned =>
        \A k \in 1..Len(text.phrases) :
            (/\ text.phrases[k].kw = "deadline"
             /\ text.phrases[k].fmt \in Formats
             /\ text.phrases[k].parse = "ok")
            => Record.deadline = Some(text.phrases[k].date)

\* C9: a text with only bare dates gets a deadline, if any, strictly
\* after the current time, whichever path produced it.
C9_BareDateIsFuture ==
    (/\ Returned
     /\ text.phrases # <<>>
     /\ \A k \in 1..Len(text.phrases) : text.phrases[k].kw = "none"
     /\ Record.deadline # None)
    => Record.deadline[1] > Now

\* C10: a text with no date-like text gets a null deadline, with or
\* without a backend.
C10_NoDateNoDeadline ==
    (Returned /\ text.phrases = <<>>) => Record.deadline = None

\* the lines of the text whose range has no currency marker and describes
\* an age, years of experience, a team size or working hours
UnrelatedRanges(t) ==
    { i \in DOMAIN t.lines :
        /\ t.lines[i].range # "" /\ t.lines[i].cur = "none"
        /\ t.lines[i].kind \in {"age", "experience", "team", "hours"} }

\* the lines of the text with a currency-marked salary
CurrencyMarked(t) == { i \in DOMAIN t.lines : t.lines[i].cur # "none" }

\* C11: extract_salary_regex never returns the range of an age, of years
\* of experience, of a team size or of working hours that has no currency
\* marker: it returns null when the text has no other range, and a
\* currency-marked salary of the text when there is one.
C11_NoUnrelatedRange ==
    pc = "salary" =>
        LET salary == Record.salary
        IN  /\ \A i \in UnrelatedRanges(text) :
                  salary # Some(Str(text.lines[i].range,
                                    Len(text.lines[i].range)))
            /\ (\A i \in DOMAIN text.lines :
                    text.lines[i].range # "" => i \in UnrelatedRanges(text))
                  => salary = None
            /\ CurrencyMarked(text) # {}
                  => \E i \in CurrencyMarked(text) :
                         salary = Some(Str(text.lines[i].money,
                                           Len(text.lines[i].money)))

\* C12: a non-null value returned by extract_salary_regex contains a
\* digit or the word "negotiable".
C12_DigitOrNegotiable ==
    (pc = "salary" /\ Record.salary # None) =>
        \/ Record.salary[1].id \in DigitIds
        \/ Lower(Record.salary[1].id) \in {Lower(n) : n \in NegotiableIds}

\* C13: in a returned record company and position have at most 150
\* characters, location at most 200, salary at most 150 and description at
\* most 200, whichever rule produced them.
C13_LengthCaps ==
    Returned =>
        /\ Record.company # None => Record.company[1].len <= 150
        /\ Record.position # None => Record.position[1].len <= 150
        /\ Record.location # None => Record.location[1].len <= 200
        /\ Record.salary # None => Record.salary[1].len <= 150
        /\ Record.description # None => Record.description[1].len <= 200

\* the one-line text "Company: Acme Corporation is hiring. Position:
\* Backend Engineer. Location: Dhaka. Salary: BDT 40,000 - 55,000.
\* Deadline: 15/02/2026."
IsScenario(t) ==
    /\ t.kind = "labeled"
    /\ t.segs = Segments([i \in 1..Len(ScenarioFields) |-> "."])

\* C15: an exception raised by a rule of a pattern extractor is confined
\* to that rule: once one has been raised in a fallback the dictionary is
\* still there and holds the validated result of every Ollama call made
\* so far.
C15_RuleFailureIsLocal ==
    handled =>
        /\ job_data # None
        /\ \A f \in called :
               agent[f] # None => job_data[1][f] = agent[f]

\* C16: with no backend, the one-line scenario text yields company "Acme
\* Corporation", position "Backend Engineer", location "Dhaka", salary
\* "BDT 40,000 - 55,000", the deadline written in it and a null
\* description.
C16_ScenarioRecord ==
    (Returned /\ IsScenario(text)) =>
        /\ Record.company = Some(Str("Acme Corporation", 16))
        /\ Record.position = Some(Str("Backend Engineer", 16))
        /\ Record.location = Some(Str("Dhaka", 5))
        /\ Record.salary = Some(Str("BDT 40,000 - 55,000", 19))
        /\ Record.deadline = Some(text.phrases[1].date)
        /\ Record.description = None

\* no pattern extractor finds anything in the text and no Ollama call
\* gave a value
NothingExtracted ==
    /\ \A f \in FallbackFields : RegexCall(f, text) = None
    /\ extract_deadline_regex(text) = None
    /\ \A f \in Fields : agent[f] = None
    /\ resolved = None

\* C17: when nothing can be extracted the returned record has company,
\* position, location, salary, deadline and description null and the
\* extraction timestamp set; company and position are never the
\* placeholders "Unknown Company" and "Unknown Position".
C17_NothingExtractedAllNull ==
    Returned =>
        /\ NothingExtracted =>
              /\ \A f \in Fields : Record[f] = None
              /\ Record.added_on = Some(clock)
        /\ Record.company # Some(Str("Unknown Company", 15))
        /\ Record.position # Some(Str("Unknown Position", 16))

\* the empty text with no backend installed: every field null, the
\* timestamp set
C17_Witness ==
    /\ Returned /\ backend = "not_installed"
    /\ text.phrases = <<>> /\ text.company = NoCompany
    /\ text.position = NoPosition /\ text.location = NoLocation
    /\ text.salary = NoSalary
    /\ \A f \in Fields : Record[f] = None
    /\ Record.added_on = Some(Now)

\* the fields of a record other than the extraction timestamp
NonTimestampFields == Fields \cup {"url"}

\* the clock reading of the previous call
PreviousClock == previous[1].added_on[1]

\* a date written in the text lies after the previous call's clock
\* reading and not after this call's
ClockPassedDate ==
    \E k \in DOMAIN text.phrases :
        /\ text.phrases[k].parse = "ok"
        /\ PreviousClock < text.phrases[k].date
        /\ text.phrases[k].date <= clock

\* C18 as stated: with no backend, the second call on the same text and
\* url returns the same fields, the timestamp aside, as the first.
C18_SameInputSameRecord ==
    (Returned /\ previous # None) =>
        \A f \in NonTimestampFields : Record[f] = previous[1][f]

\* C18, amended: with no backend, the second call on the same text and
\* url returns the same fields as the first, the timestamp aside, except
\* that the deadline may differ when a date written in the text lies
\* after the first call's clock reading and not after the second's.
C18_SameRecordUnlessClockPassedDate ==
    (Returned /\ previous # None) =>
        /\ \A f \in NonTimestampFields \ {"deadline"} :
               Record[f] = previous[1][f]
        /\ ~ClockPassedDate => Record.deadline = previous[1].deadline

\* a second call at a later clock reading that returns the company and
\* the deadline of the first
C18_Witness ==
    /\ Returned /\ previous # None
    /\ clock > PreviousClock
    /\ Record.company # None /\ Record.company = previous[1].company
    /\ Record.deadline # None /\ Record.deadline = previous[1].deadline

\* C20: with no backend, a text with an email address and no company
\* label yields company null.
C20_NoCompanyFromEmail ==
    (Returned /\ text.kind = "email") => Record.company = None

\* C14: an Ollama call returns null exactly when ollama.generate raises,
\* or the trimmed response is empty, or is the word null in any letter
\* case, or is longer than the call's ceiling; otherwise it returns the
\* trimmed response, cut to 200 characters ending in "..." when it is a
\* description of more than 200.
C14_AgentCallResult ==
    pc = "agent_done" =>
        LET f == response[1].field
            resp == response[1].resp
            trimmed == resp.len - resp.pad
            null ==
                \/ resp.raises
                \/ trimmed = 0
                \/ resp.id \in {"null", "NULL", "Null"}
                \/ trimmed > Ceiling(f)
        IN  agent[f] =
                IF null THEN None
                ELSE IF f = "description" /\ trimmed > 200
                THEN Some([id |-> resp.id, len |-> 200, ell |-> TRUE])
                ELSE Some([id |-> resp.id, len |-> trimmed, ell |-> FALSE])

\* a description call whose answer of 201 characters is returned cut to 200
C14_Witness ==
    /\ pc = "agent_done"
    /\ response[1].field = "description"
    /\ ~response[1].resp.raises
    /\ response[1].resp.len - response[1].resp.pad = 201
    /\ agent["description"] # None
    /\ agent["description"][1].ell /\ agent["description"][1].len = 200

\* the record carries an extraction timestamp
Stamped == job_data # None /\ job_data[1].added_on # None

\* C19: added_on is assigned once per extraction, when the extraction
\* completes and every Ollama call that is made has been made, with the
\* clock reading of that moment; it is not changed afterwards, the bot's
\* save step included.
C19_StampedOnceAtCompletion ==
    /\ [](Stamped =>
             /\ pc \in {"done", "saved"} /\ stamps = 1
             /\ job_data[1].added_on = Some(Now)
             /\ (backend = "reachable" /\ ~handled) => called = Fields)
    /\ [](pc \in {"done", "saved"} => Stamped)
    /\ [][Stamped =>
             /\ job_data' # None
             /\ job_data'[1].added_on = job_data[1].added_on
             /\ called' = called]_vars

\* a record saved at a later clock reading that keeps the timestamp of
\* its extraction, all six Ollama calls having been made
C19_Witness ==
    /\ pc = "saved" /\ clock > Now
    /\ called = Fields
    /\ job_data[1].added_on = Some(Now)


-----------------------------------------------------------------------------
(* The sheet, the daily reminder check, /list and /applied                 *)

LastDay == 5       \* calendar dates are the day numbers 0..LastDay
MaxRows == 2       \* data rows of the sheet of the command specification
MaxJobs == 1       \* data rows of the sheet of the reminder specification

REMINDER_DAYS == <<3, 1, 0>>
REMINDER_TIME_HOUR == 8
ListWindow == 30

\* column C of a data row as add_job writes it (sheets.py:152-159): '',
\* the '%Y-%m-%d' text of a date, or the str() of a value that is no datetime
EmptyCell == [kind |-> "empty", day |-> 0]
DateCell(d) == [kind |-> "date", day |-> d]
RawCell == [kind |-> "raw", day |-> 0]

\* a data row: columns C (Deadline) and F (Status), the two the code reads
\* to decide anything (sheets.py:239, 249)
Row(c, st) == [deadline |-> c, status |-> st]

\* instants are counted in hours; sheets.py:243-244 reads a date cell back
\* as 00:00 of that date in config.TIMEZONE
Midnight(d) == d * 24
At(d, h) == d * 24 + h

\* utils.py:39-44: timedelta.days is the floor of the difference in days
calculate_days_left(dl, now) == (dl - now) \div 24

\* sheets.py:246
DaysUntil(row, now) == calculate_days_left(Midnight(row.deadline.day), now)

\* get_upcoming_deadlines without the status test
InRangeAnyStatus(row, now, days) ==
    /\ row.deadline.kind = "date"
    /\ 0 <= DaysUntil(row, now)
    /\ DaysUntil(row, now) <= days

\* sheets.py:239-250: an empty deadline is skipped (:240), a deadline that
\* strptime rejects is skipped by the handler (:262), the others are kept
\* when 0 <= days_until <= days and the status is not 'Applied'
InRange(row, now, days) ==
    /\ row.deadline.kind = "date"
    /\ 0 <= DaysUntil(row, now)
    /\ DaysUntil(row, now) <= days
    /\ row.status # "Applied"

\* sheets.py:267: list.sort is stable, so equal deadlines keep sheet order
NearestFirst(rows, i, j) ==
    \/ rows[i].deadline.day < rows[j].deadline.day
    \/ rows[i].deadline.day = rows[j].deadline.day /\ i < j

\* sheets.py:233-270: the jobs in range, nearest deadline first; `row` is
\* the position of the job's row among the data rows
get_upcoming_deadlines(rows, now, days) ==
    LET found == {i \in 1..Len(rows) : InRange(rows[i], now, days)}
        n == Cardinality(found)
        order == CHOOSE s \in [1..n -> found] :
                   \A a, b \in 1..n : a < b => NearestFirst(rows, s[a], s[b])
    IN  [k \in 1..n |-> [row |-> order[k],
                         days_left |-> DaysUntil(rows[order[k]], now)]]

\* max(config.REMINDER_DAYS), reminder.py:40
MaxOf(seq) ==
    CHOOSE m \in {seq[k] : k \in 1..Len(seq)} :
        \A k \in 1..Len(seq) : seq[k] <= m

\* reminder.py:47-52: one _send_reminder per job whose days_left is one of
\* REMINDER_DAYS
Reminders(jobs, day) ==
    { [row |-> jobs[k].row, day |-> day, days_left |-> jobs[k].days_left] :
        k \in { k \in 1..Len(jobs) :
                  \E r \in 1..Len(REMINDER_DAYS) :
                      jobs[k].days_left = REMINDER_DAYS[r] } }

\* utils.py:149: enumerate(jobs, 1) numbers the jobs in list order
format_deadline_list(jobs) == [k \in 1..Len(jobs) |-> jobs[k].row]

\* sheets.py:294-303: the cell F(row_number + 1) is set to 'Applied'; a
\* row below the data gets that one cell
BlankRow == Row(EmptyCell, "")
mark_as_applied(rows, n) ==
    IF n <= Len(rows)
    THEN [rows EXCEPT ![n].status = "Applied"]
    ELSE [k \in 1..n |->
            IF k <= Len(rows) THEN rows[k]
            ELSE IF k = n THEN Row(EmptyCell, "Applied") ELSE BlankRow]

\* bot.py:39, 152, 182, 531: the security check of a handler
Authorized(user) ==
    ~(TELEGRAM_USER_ID # None /\ user # TELEGRAM_USER_ID[1])

\* what the handling of one update did
Update(h, user, did) == [handler |-> h, user |-> user, did |-> did]

\* the hours of a day at which a command may arrive
Hours == {1, REMINDER_TIME_HOUR, 23}

\* reminder.py:24-56, run by the trigger of reminder.py:124-136 at 08:00
check_and_send_reminders ==
    /\ ~fired
    /\ fired' = TRUE
    /\ IF TELEGRAM_USER_ID = None
       THEN sent' = sent
       ELSE LET jobs == get_upcoming_deadlines(
                            sheet, At(today, REMINDER_TIME_HOUR),
                            MaxOf(REMINDER_DAYS))
            IN  sent' = sent \cup Reminders(jobs, today)
    /\ UNCHANGED <<sheet, today, listed, marked>>
    /\ UNCHANGED <<extraction, chatVars, fetchVars, mainVars,
                   schedulerVars>>

\* the calendar date changes; the trigger is due again
NextDate ==
    /\ today < LastDay
    /\ today' = today + 1
    /\ fired' = FALSE
    /\ UNCHANGED <<sheet, sent, listed, marked>>
    /\ UNCHANGED <<extraction, chatVars, fetchVars, mainVars,
                   schedulerVars>>

\* bot.py:147-174
list_command(user) ==
    /\ IF Authorized(user)
       THEN \E h \in Hours :
              /\ listed' = format_deadline_list(
                     get_upcoming_deadlines(sheet, At(today, h), ListWindow))
              /\ last' = Update("list", user, {"read", "reveal"})
       ELSE /\ listed' = listed
            /\ last' = Update("list", user, {})
    /\ UNCHANGED <<sheet, today, fired, sent, marked>>
    /\ UNCHANGED <<TELEGRAM_USER_ID, pending_job, added, dialogue>>
    /\ UNCHANGED <<extraction, fetchVars, mainVars, schedulerVars>>

\* bot.py:177-207 with the job number utils.parse_job_number found in the
\* argument (no argument, no digits and 0 are answered with a usage text)
applied_command(user, n) ==
    /\ IF Authorized(user) /\ n > 0
       THEN /\ sheet' = mark_as_applied(sheet, n)
            /\ marked' = Some([number |-> n, day |-> today,
                               shown |-> IF n <= Len(listed)
                                         THEN Some(listed[n]) ELSE None])
            /\ last' = Update("applied", user, {"write"})
       ELSE /\ UNCHANGED <<sheet, marked>>
            /\ last' = Update("applied", user, {})
    /\ UNCHANGED <<today, fired, sent, listed>>
    /\ UNCHANGED <<TELEGRAM_USER_ID, pending_job, added, dialogue>>
    /\ UNCHANGED <<extraction, fetchVars, mainVars, schedulerVars>>

\* every content of a sheet of up to n data rows
Cells == {EmptyCell, RawCell} \cup {DateCell(d) : d \in 0..LastDay}
Rows == {Row(c, st) : c \in Cells, st \in {"Open", "Applied"}}
Sheets(n) == UNION {[1..k -> Rows] : k \in 1..n}

\* the bot of the configured user, with some sheet, before any command
SheetStart ==
    /\ today = 0
    /\ fired = FALSE
    /\ sent = {}
    /\ listed = <<>>
    /\ marked = None
    /\ TELEGRAM_USER_ID = Some(Owner)
    /\ pending_job = NoPending
    /\ added = None
    /\ last = None
    /\ dialogue = NoPending
    /\ IdleFetch
    /\ IdleMain
    /\ IdleScheduler
    /\ ExtractorIdle

\* the commands /list and /applied over the days
InitSheet == sheet \in Sheets(MaxRows) /\ SheetStart

NextSheet ==
    \/ NextDate
    \/ list_command(Owner)
    \/ \E n \in 1..MaxRows : applied_command(Owner, n)

SpecSheet == InitSheet /\ [][NextSheet]_vars

\* the daily check over the days, and /applied
InitReminder == sheet \in Sheets(MaxJobs) /\ SheetStart

NextReminder ==
    \/ check_and_send_reminders
    \/ NextDate
    \/ \E n \in 1..MaxJobs : applied_command(Owner, n)

SpecReminder == InitReminder /\ [][NextReminder]_vars


-----------------------------------------------------------------------------
(* Properties of the reminder check and of the two commands *)

\* the date in column C of data row r
DeadlineDate(r) == sheet[r].deadline.day

\* the 08:00 check of `today` would remind of row r if the row were open
DueToday(r) ==
    /\ sheet[r].deadline.kind = "date"
    /\ \E k \in 1..Len(REMINDER_DAYS) :
           DaysUntil(sheet[r], At(today, REMINDER_TIME_HOUR))
               = REMINDER_DAYS[k]

\* C21: a reminder for an open job with deadline date D is sent on the
\* days D-3, D-1 and D and on no other day, the one sent on D being the
\* "DEADLINE TODAY" message (days_left = 0)
C21_ThreeReminderDays ==
    /\ \A m \in sent :
         /\ DeadlineDate(m.row) - m.day \in {3, 1, 0}
         /\ m.days_left = 0 <=> DeadlineDate(m.row) = m.day
    /\ \A r \in 1..Len(sheet) :
         ( /\ fired
           /\ sheet[r].status = "Open"
           /\ sheet[r].deadline.kind = "date"
           /\ DeadlineDate(r) - today \in {3, 1, 0} )
         => \E m \in sent : m.row = r /\ m.day = today

\* C22: a run of check_and_send_reminders sends no reminder for a row
\* whose status is Applied or whose deadline date is before the day of the
\* run
C22_RemindersStop ==
    [][ \A m \in sent' \ sent :
          /\ sheet[m.row].status # "Applied"
          /\ DeadlineDate(m.row) >= today ]_vars

\* today's check has run, on a day for which REMINDER_DAYS has an entry,
\* after row 1 was marked Applied on an earlier day, and the last reminder
\* for the row is the one sent before it was marked
C22_Witness ==
    /\ fired
    /\ marked # None /\ marked[1].number = 1 /\ marked[1].day < today
    /\ sheet[1].status = "Applied" /\ DueToday(1)
    /\ \E m \in sent : m.row = 1 /\ m.day < marked[1].day
    /\ \A m \in sent : m.day < marked[1].day

\* C29: /applied n updates the row of the job that /list showed as
\* number n
C29_AppliedMarksListedJob ==
    (marked # None /\ marked[1].shown # None)
        => marked[1].shown[1] = marked[1].number


-----------------------------------------------------------------------------
(* scraper.fetch_job_text *)

MinContent == 100

\* what a requests.get of the scraper meets: an exception (connection
\* error, timeout, HTTP error status of raise_for_status, parser failure) or
\* a body of `len` characters of which `pad` are surrounding whitespace
Failure(why) == [kind |-> why, id |-> "", len |-> 0, pad |-> 0]
Body(id, len, pad) == [kind |-> "ok", id |-> id, len |-> len, pad |-> pad]

\* scraper.py:101-116: the stripped text when it has more than 100
\* characters, None otherwise and on any exception
_fetch_with_jina(o) ==
    IF o.kind # "ok" THEN None
    ELSE IF Stripped(o).len > MinContent THEN Some(Stripped(o)) ELSE None

\* scraper.py:133-161: the same with the text of the parsed page, cleaned
\* of surrounding whitespace
_fetch_with_beautifulsoup(o) ==
    IF o.kind # "ok" THEN None
    ELSE IF Stripped(o).len > MinContent THEN Some(Stripped(o)) ELSE None

\* the dictionaries of scraper.py:42-47, 57-62 and 74-79
Fetched(t, source) ==
    [text |-> t, success |-> TRUE, error |-> None, source |-> source]
FetchFailed ==
    [text |-> Str("", 0), success |-> FALSE,
     error |-> Some("Could not scrape this URL"), source |-> "failed"]

\* fetch_job_text asking the page first
PageFirst(j, b) ==
    IF b # None /\ b[1].len > 0 THEN Fetched(b[1], "beautifulsoup")
    ELSE IF j # None /\ j[1].len > 0 THEN Fetched(j[1], "jina")
    ELSE FetchFailed

\* scraper.py:36-79 given what the two helpers return: `if text:` is false
\* for None and for the empty string
JinaFirst(j, b) ==
    IF j # None /\ j[1].len > 0 THEN Fetched(j[1], "jina")
    ELSE IF b # None /\ b[1].len > 0 THEN Fetched(b[1], "beautifulsoup")
    ELSE FetchFailed

\* scraper.py:19-79; the fallback is called only when the first return
\* statement was not reached
fetch_job_text ==
    /\ scrape = None
    /\ LET j == _fetch_with_jina(web.jina)
           b == _fetch_with_beautifulsoup(web.page)
       IN  /\ scrape' = Some(JinaFirst(j, b))
           /\ tried' = IF j # None /\ j[1].len > 0
                       THEN <<"jina">> ELSE <<"jina", "beautifulsoup">>
    /\ UNCHANGED web
    /\ UNCHANGED <<extraction, sheetVars, chatVars, mainVars,
                   schedulerVars>>

\* the answers of the two servers
BodyLengths == {0, MinContent, MinContent + 1, MinContent + 50}
Outcomes(id) ==
    {Failure(why) : why \in {"timeout", "http_error"}}
        \cup {Body(id, n + pad, pad) : n \in BodyLengths, pad \in {0, 1}}

InitFetch ==
    /\ web \in [jina : Outcomes("reader"), page : Outcomes("page")]
    /\ scrape = None
    /\ tried = <<>>
    /\ IdleSheet
    /\ IdleChat
    /\ IdleMain
    /\ IdleScheduler
    /\ ExtractorIdle

NextFetch == fetch_job_text

SpecFetch == InitFetch /\ [][NextFetch]_vars

-----------------------------------------------------------------------------
(* The handlers of bot.py: messages, the missing-field dialogue, commands  *)

\* a timezone-aware datetime of calendar date d, as dateparser returns it
\* under RETURN_AS_TIMEZONE_AWARE (bot.py:361-368, extractor.py:56-63)
Aware(d) == [kind |-> "datetime", day |-> d, aware |-> TRUE]

\* the keys of job_data the bot reads; the other keys of the dictionary
\* (salary, location, description, added_on) are carried along unread
JobData(c, p, d, u) ==
    [company |-> c, position |-> p, deadline |-> d, url |-> u]

IsText(v) == "len" \in DOMAIN v
IsDatetime(v) == "aware" \in DOMAIN v

\* Python's truth value of dict.get(key): None and '' are false
Truthy(v) == v # None /\ (IsText(v[1]) => v[1].len > 0)

\* bot.py:296-304
IsMissing(jd, f) == ~Truthy(jd[f])
MissingFields(jd) ==
    LET all == <<"company", "position", "deadline">>
        keep == {k \in 1..3 : IsMissing(jd, all[k])}
        pick[k \in 0..3] ==
            IF k = 0 THEN <<>>
            ELSE IF k \in keep THEN Append(pick[k - 1], all[k])
                 ELSE pick[k - 1]
    IN  pick[3]

\* sheets.py:151-159, 172-182: the row add_job appends
RowOf(jd) ==
    Row(IF ~Truthy(jd.deadline) THEN EmptyCell
        ELSE IF IsDatetime(jd.deadline[1])
             THEN DateCell(jd.deadline[1].day)
             ELSE RawCell,
        "Open")

\* what handling a message comes to: the user's pending_job afterwards, the
\* dictionary passed to sheets.add_job (None when there is no call), the
\* course of the user's collection, and what was done
Outcome(pending, job, dlg, did) ==
    [pending |-> pending, job |-> job, dlg |-> dlg, did |-> did]

\* bot.py:311-318
Pending(jd, M) ==
    [extracted_data |-> jd, url |-> jd.url, job_text |-> None,
     missing_fields |-> M, current_field |-> 0]

\* the course of a collection: its list M, the fields filled by answers,
\* the messages processed as postings before the last answer, the saves
Started(M) == [M |-> M, filled |-> <<>>, postings |-> 0, saves |-> 0]
Unfinished(dlg) == dlg # None /\ Len(dlg[1].filled) < Len(dlg[1].M)

\* bot.py:357-380: the value stored for an answer.  dateparser.parse gives
\* a datetime or None; None (:371-373) and an exception (:375-377) both
\* leave the answer's text
Answer_(f, msg) ==
    IF f = "deadline" /\ msg.date # None
    THEN Some(Aware(msg.date[1]))
    ELSE Some(Stripped(msg.text))

\* bot.py:345-413 when a collection is under way
FieldResponse(p, dlg, msg) ==
    LET f == p.missing_fields[p.current_field + 1]
        data == [p.extracted_data EXCEPT ![f] = Answer_(f, msg)]
        cur == p.current_field + 1
        course == IF dlg = None THEN dlg
                  ELSE Some([dlg[1] EXCEPT
                               !.filled = Append(@, f),
                               !.saves = IF cur < Len(p.missing_fields)
                                         THEN @ ELSE @ + 1])
    IN  IF cur < Len(p.missing_fields)
        THEN Outcome(Some([p EXCEPT !.extracted_data = data,
                                    !.current_field = cur]),
                     None, course, {})
        ELSE Outcome(None, Some(data), course, {"write"})

\* bot.py:285-332: called only from save_and_confirm_job
handle_missing_fields(pending, dlg, jd, did) ==
    IF MissingFields(jd) = <<>>
    THEN Outcome(pending, Some(jd), dlg, did \cup {"write"})
    ELSE Outcome(Some(Pending(jd, MissingFields(jd))), None,
                 Some(Started(MissingFields(jd))), did)

\* save_and_confirm_job saving whatever was extracted
SaveWithoutAsking(pending, dlg, jd, did) ==
    Outcome(pending, Some(jd), dlg, did \cup {"write"})

\* bot.py:462-501
save_and_confirm_job(pending, dlg, jd, did) ==
    LET has_company == jd.company # None /\ jd.company[1].len # 0
        has_position == jd.position # None /\ jd.position[1].len # 0
    IN  IF ~has_company \/ ~has_position
        THEN handle_missing_fields(pending, dlg, jd, did)
        ELSE Outcome(pending, Some(jd), dlg, did \cup {"write"})

\* bot.py:539-570 with process_job_url (:210-253) and process_job_text
\* (:256-282): an exception of the extraction is caught at :248 and :277
NewPosting(pending, dlg, msg) ==
    LET seen == IF Unfinished(dlg)
                THEN Some([dlg[1] EXCEPT !.postings = @ + 1]) ELSE dlg
    IN  CASE msg.form = "url" /\ ~msg.fetched
               -> Outcome(pending, None, seen, {"fetch"})
          [] msg.form = "url" /\ msg.fetched /\ msg.found = None
               -> Outcome(pending, None, seen, {"fetch", "extract"})
          [] msg.form = "url" /\ msg.fetched /\ msg.found # None
               -> save_and_confirm_job(pending, seen, msg.found[1],
                                       {"fetch", "extract"})
          [] msg.form = "description" /\ msg.found = None
               -> Outcome(pending, None, seen, {"extract"})
          [] msg.form = "description" /\ msg.found # None
               -> save_and_confirm_job(pending, seen, msg.found[1],
                                       {"extract"})
          [] OTHER -> Outcome(pending, None, dlg, {})

\* handle_message looking at the form of the text before the collection
PostingFirst(pending, dlg, msg) ==
    IF /\ pending # None
       /\ pending[1].current_field < Len(pending[1].missing_fields)
       /\ msg.form = "other"
    THEN FieldResponse(pending[1], dlg, msg)
    ELSE NewPosting(pending, dlg, msg)

\* bot.py:535-570 for an authorized user: handle_field_response returns
\* False without a pending_job (:342) and when the collection is at its
\* end (:349)
Handled(pending, dlg, msg) ==
    IF /\ pending # None
       /\ pending[1].current_field < Len(pending[1].missing_fields)
    THEN FieldResponse(pending[1], dlg, msg)
    ELSE NewPosting(pending, dlg, msg)

\* bot.py:526-570; sheets.add_job appends the row unless the request to
\* the sheet fails (sheets.py:201-203).  The sheet holds MaxRows rows
handle_message(user, msg) ==
    /\ IF ~Authorized(user)
       THEN /\ last' = Update("message", user, {})
            /\ UNCHANGED <<pending_job, dialogue, added, sheet>>
       ELSE LET o == Handled(pending_job[user], dialogue[user], msg)
            IN  /\ o.job # None => Len(sheet) < MaxRows
                /\ pending_job' = [pending_job EXCEPT ![user] = o.pending]
                /\ dialogue' = [dialogue EXCEPT ![user] = o.dlg]
                /\ last' = Update("message", user, o.did)
                /\ IF o.job = None
                   THEN UNCHANGED <<added, sheet>>
                   ELSE /\ added' = o.job
                        /\ \E ok \in BOOLEAN :
                             sheet' = IF ok
                                      THEN Append(sheet, RowOf(o.job[1]))
                                      ELSE sheet
    /\ UNCHANGED <<today, fired, sent, listed, marked, TELEGRAM_USER_ID>>
    /\ UNCHANGED <<extraction, fetchVars, mainVars, schedulerVars>>

\* bot.py:34-79
start_command(user) ==
    /\ last' = Update("start", user, {})
    /\ UNCHANGED <<sheetVars, TELEGRAM_USER_ID, pending_job, added, dialogue>>
    /\ UNCHANGED <<extraction, fetchVars, mainVars, schedulerVars>>

\* bot.py:82-144: the guide is sent to whoever asks
help_command(user) ==
    /\ last' = Update("help", user, {})
    /\ UNCHANGED <<sheetVars, TELEGRAM_USER_ID, pending_job, added, dialogue>>
    /\ UNCHANGED <<extraction, fetchVars, mainVars, schedulerVars>>

\* bot.py:573-602: no security check; 'list_all' reads the sheet and
\* replies with the list
handle_callback(user, data) ==
    /\ IF data = "list_all"
       THEN \E h \in Hours :
              /\ listed' = format_deadline_list(
                     get_upcoming_deadlines(sheet, At(today, h), ListWindow))
              /\ last' = Update("callback", user, {"read", "reveal"})
       ELSE /\ listed' = listed
            /\ last' = Update("callback", user, {})
    /\ UNCHANGED <<sheet, today, fired, sent, marked>>
    /\ UNCHANGED <<TELEGRAM_USER_ID, pending_job, added, dialogue>>
    /\ UNCHANGED <<extraction, fetchVars, mainVars, schedulerVars>>

\* the text messages of the specifications.  A text message of Telegram
\* has at least one character that is not white space, so `text` is not
\* empty after strip() (bot.py:353, 539).  `date` is what
\* dateparser.parse makes of the text, `form` what utils.extract_url and
\* utils.detect_job_description find, `fetched` whether fetch_job_text
\* succeeds for the URL, `found` what extract_job_details returns for the
\* text (None when it raises)
Typed(id, len, pad) == [id |-> id, len |-> len, pad |-> pad]
Message(t, date, form, fetched, found) ==
    [text |-> t, date |-> date, form |-> form, fetched |-> fetched,
     found |-> found]

Found(u) ==
    {None} \cup
    { Some(JobData(c, p, d, u)) :
        c \in {None, Some(Str("TechCorp", 8))},
        p \in {None, Some(Str("Engineer", 8))},
        d \in {None, Some(Aware(LastDay))} }

Link == Some(Str("https://example.com/job", 23))

Chatter ==
    { Message(Typed("Acme Ltd", 8, 0), None, "other", FALSE, None),
      Message(Typed("Feb 15, 2026", 13, 1), Some(LastDay), "other", FALSE,
              None) }
Postings ==
    { Message(Typed("posting", 300, 0), None, "description", FALSE, f) :
        f \in Found(None) }
Links ==
    { Message(Typed("https://example.com/job", 23, 0), None, "url", ok, f) :
        ok \in BOOLEAN, f \in Found(Link) }
\* the messages that lead to no collection
Complete ==
    { m \in Postings \cup Links :
        \/ m.form = "url" /\ ~m.fetched /\ m.found = None
        \/ m.found # None /\ MissingFields(m.found[1]) = <<>> }

\* the private bot: the configured user sends postings, links and answers
InitDialogue ==
    /\ TELEGRAM_USER_ID = Some(Owner)
    /\ pending_job = NoPending
    /\ added = None
    /\ last = None
    /\ dialogue = NoPending
    /\ IdleSheet
    /\ IdleFetch
    /\ IdleMain
    /\ IdleScheduler
    /\ ExtractorIdle

NextDialogue == \E msg \in Chatter \cup Postings : handle_message(Owner, msg)

SpecDialogue == InitDialogue /\ [][NextDialogue]_vars


\* every handler main() registers (bot.py:637-646), for every user, on a
\* bot with or without a configured user; the postings are complete
InitHandlers ==
    /\ sheet \in Sheets(MaxJobs)
    /\ today = 0
    /\ fired = FALSE
    /\ sent = {}
    /\ listed = <<>>
    /\ marked = None
    /\ TELEGRAM_USER_ID \in {None, Some(Owner)}
    /\ pending_job = NoPending
    /\ added = None
    /\ last = None
    /\ dialogue = NoPending
    /\ IdleFetch
    /\ IdleMain
    /\ IdleScheduler
    /\ ExtractorIdle

NextHandlers ==
    \E user \in Users :
        \/ start_command(user)
        \/ help_command(user)
        \/ list_command(user)
        \/ \E n \in 0..MaxJobs : applied_command(user, n)
        \/ \E msg \in Chatter \cup Complete : handle_message(user, msg)
        \/ \E data \in {"list_all", "applied_job"} :
               handle_callback(user, data)

SpecHandlers == InitHandlers /\ [][NextHandlers]_vars

-----------------------------------------------------------------------------
(* Properties of the handlers *)

\* a sub-list of company, position, deadline, in that order
SubLists ==
    { <<"company">>, <<"position">>, <<"deadline">>,
      <<"company", "position">>, <<"company", "deadline">>,
      <<"position", "deadline">>, <<"company", "position", "deadline">> }

NonEmpty(v) == v # None /\ v[1].len > 0

\* C25: the dictionary of every sheets.add_job call has a non-empty company
\* and a non-empty position, and no collection is started for a posting
\* that lacks its deadline only
C25_CompanyAndPositionSaved ==
    /\ added # None =>
           NonEmpty(added[1].company) /\ NonEmpty(added[1].position)
    /\ \A u \in Users :
           dialogue[u] # None => dialogue[u][1].M # <<"deadline">>

\* a posting without company was saved with the company the user supplied
C25_Witness ==
    /\ added # None
    /\ added[1].company = Some(Str("Acme Ltd", 8))
    /\ added[1].position = Some(Str("Engineer", 8))
    /\ dialogue[Owner] # None
    /\ dialogue[Owner][1].M = <<"company">>

\* C26: the deadline of the dictionary of every sheets.add_job call is
\* absent or a timezone-aware datetime
C26_DeadlineIsTimestamp ==
    added # None =>
        \/ added[1].deadline = None
        \/ IsDatetime(added[1].deadline[1]) /\ added[1].deadline[1].aware

\* C27: with TELEGRAM_USER_ID configured, the handling of an update of
\* another user reads nothing from the sheet, reveals no list, runs no
\* extraction or fetch and writes nothing
C27_StrangerDoesNothing ==
    (TELEGRAM_USER_ID # None /\ last # None
        /\ last.user # TELEGRAM_USER_ID[1])
    => last.did = {}


-----------------------------------------------------------------------------
(* main() of bot.py *)

\* the names config.py defines; reading any other attribute of the module
\* raises AttributeError
ConfigNames ==
    { "TELEGRAM_BOT_TOKEN", "TELEGRAM_USER_ID", "OLLAMA_MODEL", "OLLAMA_HOST",
      "JINA_API_KEY", "JINA_READER_URL", "GOOGLE_SHEETS_CREDENTIALS",
      "GOOGLE_SHEET_ID", "USER_TIMEZONE_STR", "TIMEZONE", "REMINDER_DAYS",
      "REMINDER_TIME_HOUR", "DATE_PATTERNS", "SHEET_HEADERS", "LOG_LEVEL",
      "REQUEST_TIMEOUT", "MAX_DESCRIPTION_LENGTH" }
Defined(name) == name \in ConfigNames

\* bot.py:610-661.  os.getenv gives None for an unset variable and the
\* text of a set one; a failure of sheets.initialize_sheet (:625-631) or of
\* reminder.schedule_reminders (:653-657) is caught
main_(env) ==
    IF ~Truthy(env.TELEGRAM_BOT_TOKEN)
    THEN Ended("sys.exit", FALSE, FALSE)
    ELSE IF ~Defined("GOOGLE_SHEET_ID") \/ ~Defined("GEMINI_API_KEY")
         THEN Ended("AttributeError", FALSE, FALSE)
         ELSE Ended("run_polling", TRUE, TRUE)

main ==
    /\ startup.end = "entered"
    /\ startup' = main_(environ)
    /\ UNCHANGED environ
    /\ UNCHANGED <<extraction, sheetVars, chatVars, fetchVars,
                   schedulerVars>>

\* the environment of the process and the two services main() sets up
Environments ==
    [ TELEGRAM_BOT_TOKEN :
          {None, Some(Str("", 0)), Some(Str("123456:token", 12))},
      TELEGRAM_USER_ID : {None, Some(Str("1001", 4))},
      GOOGLE_SHEET_ID : {None, Some(Str("sheet-id", 8))},
      initialize_sheet : {"True", "False", "raises"},
      schedule_reminders : {"started", "raises"} ]

InitMain ==
    /\ environ \in Environments
    /\ startup = Ended("entered", FALSE, FALSE)
    /\ IdleSheet
    /\ IdleChat
    /\ IdleFetch
    /\ IdleScheduler
    /\ ExtractorIdle

NextMain == main

SpecMain == InitMain /\ [][NextMain]_vars

\* C28: with TELEGRAM_BOT_TOKEN set main() registers the handlers and
\* reaches run_polling whatever the sheet initialisation and the reminder
\* scheduling do; startup stops only for a missing token
C28_StartupReachesPolling ==
    startup.end # "entered" =>
        /\ Truthy(environ.TELEGRAM_BOT_TOKEN)
               => (startup.end = "run_polling" /\ startup.handlers)
        /\ ~Truthy(environ.TELEGRAM_BOT_TOKEN) => startup.end = "sys.exit"

-----------------------------------------------------------------------------
(* reminder.schedule_reminders and reminder.stop_scheduler *)

MaxSchedulers == 4     \* BackgroundScheduler objects constructed

BothJobs == {"daily_reminder_check", "daily_sheet_update"}

\* a BackgroundScheduler: the ids of its jobs and whether it runs
Scheduler(jobs, state) == [jobs |-> jobs, state |-> state]

\* the statement of the try block (reminder.py:120-148) that raises
Faults == {"none", "BackgroundScheduler", "CronTrigger", "add_job_check",
           "add_job_update", "start"}

\* reminder.py:121-147: the scheduler as the try block leaves it
SetUp(fault) ==
    CASE fault = "CronTrigger" -> Scheduler({}, "new")
      [] fault = "add_job_check" -> Scheduler({}, "new")
      [] fault = "add_job_update"
           -> Scheduler({"daily_reminder_check"}, "new")
      [] fault = "start" -> Scheduler(BothJobs, "new")
      [] OTHER -> Scheduler(BothJobs, "running")

\* reminder.py:105-151: _scheduler is assigned by the first statement of
\* the try block, and the handler at :150 only logs
schedule_reminders(fault) ==
    /\ IF _scheduler # None \/ fault = "BackgroundScheduler"
       THEN UNCHANGED <<_scheduler, schedulers>>
       ELSE /\ Len(schedulers) < MaxSchedulers
            /\ schedulers' = Append(schedulers, SetUp(fault))
            /\ _scheduler' = Some(Len(schedulers) + 1)
    /\ UNCHANGED <<extraction, sheetVars, chatVars, fetchVars, mainVars>>

\* reminder.py:154-161.  shutdown() of a scheduler that was never started
\* raises in APScheduler (SchedulerNotRunningError) and the assignment at
\* :161 is not reached; both outcomes are taken
stop_scheduler ==
    /\ IF _scheduler = None
       THEN UNCHANGED <<_scheduler, schedulers>>
       ELSE LET k == _scheduler[1]
            IN  \/ /\ schedulers' =
                        [schedulers EXCEPT ![k].state = "shutdown"]
                   /\ _scheduler' = None
                \/ /\ schedulers[k].state # "running"
                   /\ UNCHANGED <<_scheduler, schedulers>>
    /\ UNCHANGED <<extraction, sheetVars, chatVars, fetchVars, mainVars>>

InitScheduler ==
    /\ IdleScheduler
    /\ IdleSheet
    /\ IdleChat
    /\ IdleFetch
    /\ IdleMain
    /\ ExtractorIdle

NextScheduler ==
    \/ \E fault \in Faults : schedule_reminders(fault)
    \/ stop_scheduler

SpecScheduler == InitScheduler /\ [][NextScheduler]_vars

\* C30: at most one scheduler that is not shut down exists, and _scheduler
\* is non-null exactly when a started scheduler with both daily jobs is
\* running (so it is null after a schedule_reminders whose setup failed)
C30_OneRunningScheduler ==
    /\ Cardinality({k \in 1..Len(schedulers) :
                       schedulers[k].state # "shutdown"}) <= 1
    /\ _scheduler # None <=>
          \E k \in 1..Len(schedulers) :
              /\ schedulers[k].state = "running"
              /\ schedulers[k].jobs = BothJobs
    /\ _scheduler # None =>
          /\ schedulers[_scheduler[1]].state = "running"
          /\ schedulers[_scheduler[1]].jobs = BothJobs

====
